---- MODULE Spec2Model ----
(***************************************************************************)
(* Model of streamlit.py, the Snowflake workload credit calculator.        *)
(*                                                                         *)
(* The program is one script that the host re-runs from top to bottom on   *)
(* every user interaction.  What survives between two runs is the session  *)
(* state: the 'workloads' list and the state of the keyed widgets.  One    *)
(* action of the model is one interaction together with the script run it  *)
(* triggers; a run ended by st.rerun() leaves a pending rerun that the     *)
(* next step performs.                                                     *)
(*                                                                         *)
(* Numbers: uptime, the credits and the totals are exact rationals         *)
(* <<numerator, denominator>> in lowest terms; floating-point rounding is  *)
(* not modelled.  Positions are 1-based here (k = i + 1 for the script's   *)
(* loop index i); widget keys are built from the 0-based index as in the   *)
(* script.                                                                 *)
(***************************************************************************)
EXTENDS Integers, Sequences, FiniteSets, TLC

VARIABLES
    session_state,    \* << >> or [workloads |-> list]: st.session_state
    widgets,          \* key -> [id, val]: state of the keyed input widgets
    widget_identity,  \* "key" or "params": how the host identifies a widget
    rerun_requested,  \* a script run is pending (page load or st.rerun())
    error_at,         \* 0, or the position whose rendering raised
    published,        \* what the last run showed in the summary and metrics
    hist,             \* history: the last interactions and the list before
    interactions      \* how many interactions the session has had

vars == <<session_state, widgets, widget_identity, rerun_requested,
          error_at, published, hist, interactions>>

----------------------------------------------------------------------------
(* Bounds *)

MaxWorkloads == 2
MaxInteractions == 4

----------------------------------------------------------------------------
(* Exact rational arithmetic *)

RECURSIVE GCD(_, _)
GCD(a, b) == IF b = 0 THEN a ELSE GCD(b, a % b)

Rat(n, d) == LET g == GCD(n, d) IN IF g = 0 THEN <<0, 1>> ELSE <<n \div g, d \div g>>

RatMul(a, b) == Rat(a[1] * b[1], a[2] * b[2])

RatAdd(a, b) == Rat(a[1] * b[2] + b[1] * a[2], a[2] * b[2])

RatInt(n) == <<n, 1>>

----------------------------------------------------------------------------
(* Data *)

SIZE_OPTIONS ==
    <<"X-Small", "Small", "Medium", "Large", "X-Large",
      "2X-Large", "3X-Large", "4X-Large", "5X-Large", "6X-Large">>

CREDITS_PER_HOUR ==
    [s \in {SIZE_OPTIONS[k] : k \in 1..Len(SIZE_OPTIONS)} |->
        CASE s = "X-Small"  -> 1
          [] s = "Small"    -> 2
          [] s = "Medium"   -> 4
          [] s = "Large"    -> 8
          [] s = "X-Large"  -> 16
          [] s = "2X-Large" -> 32
          [] s = "3X-Large" -> 64
          [] s = "4X-Large" -> 128
          [] s = "5X-Large" -> 256
          [] s = "6X-Large" -> 512]

WEEKS_PER_MONTH == Rat(52, 12)

WorkloadName(n) == "Workload " \o ToString(n)

DefaultWorkload ==
    [name |-> "Workload 1", size |-> "Medium", count |-> 1,
     uptime |-> Rat(80, 10), days_per_week |-> 5]

NewWorkloadCountOne(ws) ==
    [name |-> WorkloadName(Len(ws) + 1), size |-> "X-Small", count |-> 1,
     uptime |-> Rat(80, 10), days_per_week |-> 5]

NewWorkload(ws) ==
    [name |-> WorkloadName(Len(ws) + 1), size |-> "X-Small", count |-> 4,
     uptime |-> Rat(80, 10), days_per_week |-> 5]

----------------------------------------------------------------------------
(* Session state initialization *)

BackfillWorkloadFive(w, k) ==
    LET w1 == IF "name" \notin DOMAIN w
              THEN ("name" :> WorkloadName(k)) @@ w ELSE w
    IN  IF "days_per_week" \notin DOMAIN w1
        THEN ("days_per_week" :> 5) @@ w1 ELSE w1

BackfillWorkload(w, k) ==
    LET w1 == IF "name" \notin DOMAIN w
              THEN ("name" :> WorkloadName(k)) @@ w ELSE w
    IN  IF "days_per_week" \notin DOMAIN w1
        THEN ("days_per_week" :> 7) @@ w1 ELSE w1

RECURSIVE Backfill(_, _)
Backfill(ws, k) ==
    IF k > Len(ws) THEN ws
    ELSE Backfill([ws EXCEPT ![k] = BackfillWorkload(@, k)], k + 1)

InitializeAlways(ss) == ("workloads" :> <<DefaultWorkload>>) @@ ss

Initialize(ss) ==
    IF "workloads" \notin DOMAIN ss
    THEN ("workloads" :> <<DefaultWorkload>>) @@ ss
    ELSE [ss EXCEPT !.workloads = Backfill(@, 1)]

----------------------------------------------------------------------------
(* Keyed widgets *)

KeyNoPosition(field, k) == field \o "_0"

Key(field, k) == field \o "_" \o ToString(k - 1)

\* What identifies a widget between two runs: its key alone, or its key
\* together with its construction parameters (of which only value= varies).
WidgetId(identity, value) == IF identity = "key" THEN << >> ELSE <<value>>

\* A widget call: the stored state is kept when the identity matches the one
\* of the previous run, else the widget starts again from value=.
RenderWidget(identity, wd, key, value) ==
    IF key \in DOMAIN wd /\ wd[key].id = WidgetId(identity, value)
    THEN wd
    ELSE (key :> [id |-> WidgetId(identity, value), val |-> value]) @@ wd

\* The host drops the state of the widgets a finished run did not render.
RemoveStale(wd, ids) == [key \in (DOMAIN wd) \cap ids |-> wd[key]]

IndexOf(seq, v) ==
    IF \E k \in 1..Len(seq) : seq[k] = v
    THEN CHOOSE k \in 1..Len(seq) : seq[k] = v /\ \A j \in 1..(k - 1) : seq[j] # v
    ELSE 0

RemoveAtFirst(ws, k) == Tail(ws)

RemoveAt(ws, k) == SubSeq(ws, 1, k - 1) \o SubSeq(ws, k + 1, Len(ws))

----------------------------------------------------------------------------
(* Workload calculation *)

WorkloadDailyCreditsNoCount(w) ==
    RatMul(RatInt(CREDITS_PER_HOUR[w.size]), w.uptime)

WorkloadDailyCredits(w) ==
    RatMul(RatMul(RatInt(CREDITS_PER_HOUR[w.size]), w.uptime), RatInt(w.count))

WorkloadMonthlyCredits(w) ==
    RatMul(RatMul(WorkloadDailyCredits(w), RatInt(w.days_per_week)), WEEKS_PER_MONTH)

AccumulateOverwrite(total, credits) == credits

Accumulate(total, credits) == RatAdd(total, credits)

----------------------------------------------------------------------------
(* One run of the script *)

NotPublished == [shown |-> FALSE]

PublishedAlways(st, add_clicked) ==
    [shown |-> TRUE, rows |-> st.rows,
     total_daily |-> st.td, total_monthly |-> st.tm,
     total_annual |-> RatMul(st.tm, RatInt(12))]

\* The summary table and the three metrics, which only a run that reaches
\* the end of the script shows.
Published(st, add_clicked) ==
    IF st.status = "running" /\ ~add_clicked
    THEN [shown |-> TRUE, rows |-> st.rows,
          total_daily |-> st.td, total_monthly |-> st.tm,
          total_annual |-> RatMul(st.tm, RatInt(12))]
    ELSE NotPublished

\* The script's locals and the session during a run: ws (the list), wd
\* (the widgets), ids (the widgets rendered so far), td/tm (the running
\* totals), rows (the summary data), status and the failing position.
StartOfRun(ws, wd) ==
    [ws |-> ws, wd |-> wd, ids |-> {},
     td |-> RatInt(0), tm |-> RatInt(0), rows |-> << >>,
     status |-> "running", at |-> 0]

\* workloads[i][field] = <widget>(value=workload[field], key=...)
WriteBack(st, k, field, key, wd) ==
    [st EXCEPT !.wd = wd, !.ws[k][field] = wd[key].val, !.ids = @ \cup {key}]

Input(identity, st, k, field, key) ==
    WriteBack(st, k, field, key,
              RenderWidget(identity, st.wd, key, st.ws[k][field]))

\* The workload calculation, the accumulation and the summary row
Calculate(st, k) ==
    [st EXCEPT !.td = Accumulate(@, WorkloadDailyCredits(st.ws[k])),
               !.tm = Accumulate(@, WorkloadMonthlyCredits(st.ws[k])),
               !.rows = Append(@, [daily |-> WorkloadDailyCredits(st.ws[k]),
                                   monthly |-> WorkloadMonthlyCredits(st.ws[k])])]

\* From the Remove button to the end of the loop body
RemoveButton(identity, st, k, remove_clicked) ==
    IF remove_clicked = k
    THEN [st EXCEPT !.ws = RemoveAt(@, k), !.status = "rerun"]
    ELSE Calculate(
            Input(identity,
                  Input(identity, st, k, "uptime", Key("uptime", k)),
                  k, "days_per_week", Key("days", k)),
            k)

\* From the size selectbox on: its index= lookup raises for an unknown size
SizeSelect(identity, st, k, remove_clicked) ==
    IF IndexOf(SIZE_OPTIONS, st.ws[k].size) = 0
    THEN [st EXCEPT !.status = "error", !.at = k]
    ELSE RemoveButton(identity,
                      Input(identity,
                            Input(identity, st, k, "size", Key("size", k)),
                            k, "count", Key("count", k)),
                      k, remove_clicked)

\* The body of the loop for position k
WorkloadSection(identity, st, k, remove_clicked) ==
    SizeSelect(identity, Input(identity, st, k, "name", Key("name", k)),
               k, remove_clicked)

RECURSIVE WorkloadLoop(_, _, _, _)
WorkloadLoop(identity, st, k, remove_clicked) ==
    IF st.status # "running" \/ k > Len(st.ws)
    THEN st
    ELSE WorkloadLoop(identity,
                      WorkloadSection(identity, st, k, remove_clicked),
                      k + 1, remove_clicked)

\* The session after a run: st.rerun() after the Add button, and the host
\* dropping the state of unrendered widgets unless the run raised.
EndOfRun(ss, st, add_clicked) ==
    [session_state |->
        [ss EXCEPT !.workloads =
            IF st.status = "running" /\ add_clicked
            THEN Append(st.ws, NewWorkload(st.ws)) ELSE st.ws],
     widgets |-> IF st.status = "error" THEN st.wd ELSE RemoveStale(st.wd, st.ids),
     rerun |-> st.status = "rerun" \/ (st.status = "running" /\ add_clicked),
     error_at |-> st.at,
     published |-> Published(st, add_clicked)]

RunFrom(identity, ss, wd, remove_clicked, add_clicked) ==
    EndOfRun(ss,
             WorkloadLoop(identity, StartOfRun(ss.workloads, wd), 1, remove_clicked),
             add_clicked)

\* The whole script: initialization, the loop, the Add button, the summary
\* and the metrics.  The result is the session after the run.
Script(identity, ss, wd, remove_clicked, add_clicked) ==
    RunFrom(identity, Initialize(ss), wd, remove_clicked, add_clicked)

----------------------------------------------------------------------------
(* What the user can do with the widgets *)

NameInputs == {"ETL"}
SizePicks == {4}
CountTyped == {0, 3}
UptimeSteps == {1}
DaysSteps == {7}

NumberInputNoMin(min_value, typed) == typed

\* number_input(min_value=1, step=1): the control does not go below min_value
NumberInput(min_value, typed) == IF typed < min_value THEN min_value ELSE typed

RatLeq(a, b) == a[1] * b[2] <= b[1] * a[2]

\* slider(min_value, max_value, step): the handle dragged n steps from the
\* left end stops at the right end
SliderValue(min_value, max_value, step, n) ==
    LET v == RatAdd(min_value, RatMul(step, RatInt(n)))
    IN  IF RatLeq(v, max_value) THEN v ELSE max_value

Workloads == session_state.workloads

\* The controls of position k that the last run put on the page
SectionShown(k) ==
    /\ ~rerun_requested
    /\ "workloads" \in DOMAIN session_state
    /\ k \in 1..Len(Workloads)
    /\ error_at = 0 \/ k < error_at

NameShown(k) ==
    /\ ~rerun_requested
    /\ "workloads" \in DOMAIN session_state
    /\ k \in 1..Len(Workloads)
    /\ error_at = 0 \/ k <= error_at

\* History kept for the properties: the last interaction with the list
\* before it, and the interaction before that (its list only for an add).
Older(h) ==
    IF h = << >> THEN << >>
    ELSE IF h[1].op = "add" THEN <<h[1]>>
    ELSE <<[h[1] EXCEPT !.before = << >>]>>

Record(op, k) ==
    /\ interactions < MaxInteractions
    /\ interactions' = interactions + 1
    /\ hist' = <<[op |-> op, at |-> k, before |-> Workloads]>> \o Older(hist)

Apply(run) ==
    \E r \in {run} :
        /\ session_state' = r.session_state
        /\ widgets' = r.widgets
        /\ rerun_requested' = r.rerun
        /\ error_at' = r.error_at
        /\ published' = r.published
        /\ UNCHANGED widget_identity

\* A widget of the page changes value; the host runs the script.
Edit(key, v) ==
    /\ key \in DOMAIN widgets
    /\ widgets[key].val # v
    /\ Apply(Script(widget_identity, session_state,
                    [widgets EXCEPT ![key].val = v], 0, FALSE))

EditName(k, v) ==
    /\ NameShown(k)
    /\ Edit(Key("name", k), v)
    /\ Record("name", k)

EditSize(k, n) ==
    /\ SectionShown(k)
    /\ Edit(Key("size", k), SIZE_OPTIONS[n])
    /\ Record("size", k)

EditCount(k, typed) ==
    /\ SectionShown(k)
    /\ Edit(Key("count", k), NumberInput(1, typed))
    /\ Record("count", k)

EditUptime(k, n) ==
    /\ SectionShown(k)
    /\ Edit(Key("uptime", k), SliderValue(Rat(0, 10), Rat(240, 10), Rat(5, 10), n))
    /\ Record("uptime", k)

EditDays(k, n) ==
    /\ SectionShown(k)
    /\ Edit(Key("days", k), SliderValue(RatInt(1), RatInt(7), RatInt(1), n)[1])
    /\ Record("days_per_week", k)

ClickRemove(k) ==
    /\ SectionShown(k)
    /\ Apply(Script(widget_identity, session_state, widgets, k, FALSE))
    /\ Record("remove", k)

ClickAdd ==
    /\ ~rerun_requested
    /\ "workloads" \in DOMAIN session_state
    /\ error_at = 0
    /\ Len(Workloads) < MaxWorkloads
    /\ Apply(Script(widget_identity, session_state, widgets, 0, TRUE))
    /\ Record("add", Len(Workloads) + 1)

\* A run without interaction: the page load, the run st.rerun() asked for,
\* or a rerun the user asks for.
Rerun ==
    /\ Apply(Script(widget_identity, session_state, widgets, 0, FALSE))
    /\ UNCHANGED <<hist, interactions>>

----------------------------------------------------------------------------
(* Specifications *)

Positions == 1..MaxWorkloads

Init ==
    /\ session_state = << >>
    /\ widgets = << >>
    /\ widget_identity \in {"key", "params"}
    /\ rerun_requested = TRUE
    /\ error_at = 0
    /\ published = NotPublished
    /\ hist = << >>
    /\ interactions = 0

Next ==
    \/ Rerun
    \/ \E k \in Positions, v \in NameInputs : EditName(k, v)
    \/ \E k \in Positions, n \in SizePicks : EditSize(k, n)
    \/ \E k \in Positions, n \in CountTyped : EditCount(k, n)
    \/ \E k \in Positions, n \in UptimeSteps : EditUptime(k, n)
    \/ \E k \in Positions, n \in DaysSteps : EditDays(k, n)
    \/ \E k \in Positions : ClickRemove(k)
    \/ ClickAdd

Spec == Init /\ [][Next]_vars

\* A session that already holds a list stored by an older version of the
\* script: records may lack 'name' or 'days_per_week', and may carry a size
\* label the rate table does not know.
LegacyLists ==
    { <<[size |-> "X-Large", count |-> 1, uptime |-> Rat(40, 10)]>>,
      <<[name |-> "Nightly", size |-> "Small", count |-> 2, uptime |-> Rat(100, 10)],
        [size |-> "UnknownTier", count |-> 1, uptime |-> Rat(80, 10),
         days_per_week |-> 3]>> }

InitLegacy ==
    /\ session_state \in {[workloads |-> ws] : ws \in LegacyLists}
    /\ widgets = << >>
    /\ widget_identity \in {"key", "params"}
    /\ rerun_requested = TRUE
    /\ error_at = 0
    /\ published = NotPublished
    /\ hist = << >>
    /\ interactions = 0

SpecLegacy == InitLegacy /\ [][Next]_vars

----------------------------------------------------------------------------
(* Properties *)

HasList == "workloads" \in DOMAIN session_state

Fields == {"name", "size", "count", "uptime", "days_per_week"}

\* The rate the specification gives: 1 for the first tier, doubling per tier
TierRate(size) == 2 ^ (IndexOf(SIZE_OPTIONS, size) - 1)

SliderPositions(min_value, max_value, step) ==
    {Rat(2 * min_value + n * step, 2) : n \in 0..((2 * (max_value - min_value)) \div step)}

ValidWorkload(w) ==
    /\ DOMAIN w = Fields
    /\ IndexOf(SIZE_OPTIONS, w.size) \in 1..10
    /\ w.count >= 1
    /\ w.uptime \in SliderPositions(0, 24, 1)
    /\ w.days_per_week \in 1..7

\* a = b for two fractions, by cross-multiplication
SameFraction(an, ad, bn, bd) == ad # 0 /\ bd # 0 /\ an * bd = bn * ad

RECURSIVE SumOf(_, _)
SumOf(rows, field) ==
    IF rows = << >> THEN <<0, 1>>
    ELSE LET r == SumOf(Tail(rows), field)
             h == Head(rows)[field]
         IN  Rat(h[1] * r[2] + r[1] * h[2], h[2] * r[2])

\* C1: in every evaluation pass, for every valid workload of the list, the
\* per-workload daily credits are rate(size) * uptime * count and the
\* per-workload monthly credits are daily * days_per_week * 52/12, that is
\* 3 * monthly = 13 * daily * days_per_week.
C1_PerWorkloadCredits ==
    published.shown =>
        /\ Len(published.rows) = Len(Workloads)
        /\ \A k \in 1..Len(Workloads) :
            LET w == Workloads[k]
                d == published.rows[k].daily
                m == published.rows[k].monthly
            IN  ValidWorkload(w) =>
                  /\ SameFraction(d[1], d[2],
                                  TierRate(w.size) * w.uptime[1] * w.count, w.uptime[2])
                  /\ SameFraction(3 * m[1], m[2],
                                  13 * d[1] * w.days_per_week, d[2])

C1_Witness ==
    /\ published.shown
    /\ \E k \in 1..Len(Workloads) :
         /\ ValidWorkload(Workloads[k])
         /\ Workloads[k].size = "Large"
         /\ Workloads[k].uptime = <<1, 2>>
         /\ Workloads[k].count = 3
         /\ Workloads[k].days_per_week = 7
         /\ published.rows[k].daily = <<12, 1>>
         /\ published.rows[k].monthly = <<364, 1>>

\* C2: the totals a completed pass publishes are the sums of the per-workload
\* daily and monthly credits over the whole current list, the annual total is
\* exactly 12 times the monthly total, and all three are 0 for an empty list.
C2_Totals ==
    published.shown =>
        /\ Len(published.rows) = Len(Workloads)
        /\ published.total_daily = SumOf(published.rows, "daily")
        /\ published.total_monthly = SumOf(published.rows, "monthly")
        /\ SameFraction(published.total_annual[1], published.total_annual[2],
                        12 * published.total_monthly[1], published.total_monthly[2])
        /\ Len(Workloads) = 0 =>
             /\ published.total_daily[1] = 0
             /\ published.total_monthly[1] = 0
             /\ published.total_annual[1] = 0

C2_Witness ==
    /\ published.shown
    /\ Len(Workloads) = 2
    /\ hist # << >>
    /\ Workloads[1].count = 3
    /\ published.total_daily = <<128, 1>>
    /\ published.total_annual = <<33280, 1>>

\* C4: every workload of the list always has a size of the rate table,
\* count >= 1, uptime in [0, 24] and days_per_week in [1, 7].
C4_FieldDomains ==
    HasList => \A k \in 1..Len(Workloads) : ValidWorkload(Workloads[k])

C4_Witness ==
    /\ HasList /\ ~rerun_requested
    /\ Len(hist) = 2
    /\ hist[1].op = "uptime" /\ hist[2].op = "count"
    /\ \E k \in 1..Len(Workloads) :
         /\ Workloads[k].name = "Workload 2"
         /\ Workloads[k].count = 1
         /\ Workloads[k].uptime = <<1, 2>>
         /\ hist[1].before[k].uptime = <<8, 1>>

LastOp == IF hist = << >> THEN "none" ELSE hist[1].op

\* The list with the element at position k taken out, everything else as is
Without(ws, k) == [j \in 1..(Len(ws) - 1) |-> IF j < k THEN ws[j] ELSE ws[j + 1]]

SameList(a, b) ==
    /\ Len(a) = Len(b)
    /\ \A j \in 1..Len(a) :
         /\ DOMAIN a[j] = DOMAIN b[j]
         /\ \A f \in DOMAIN a[j] : a[j][f] = b[j][f]

\* C3: once the re-render that follows a removal at position i has completed,
\* the list is the list before the removal without its element i: the
\* elements before i unchanged, the elements after i moved up by one with all
\* five fields intact.
C3_RemoveDeletesExactlyThat ==
    (HasList /\ LastOp = "remove" /\ ~rerun_requested)
        => SameList(Workloads, Without(hist[1].before, hist[1].at))

\* C5: an edit of one field of the workload at position i leaves the other
\* four fields of that workload, every other workload, the length and the
\* order of the list as they were.
C5_EditChangesOnlyThatField ==
    (HasList /\ LastOp \in Fields) =>
        /\ Len(Workloads) = Len(hist[1].before)
        /\ \A j \in 1..Len(Workloads) : \A f \in Fields :
             (j # hist[1].at \/ f # hist[1].op)
                 => Workloads[j][f] = hist[1].before[j][f]

C5_Witness ==
    /\ HasList /\ ~rerun_requested
    /\ Len(hist) = 2
    /\ hist[2].op = "remove"
    /\ hist[1].op = "count" /\ hist[1].at = 1
    /\ Len(Workloads) = 1
    /\ hist[1].before[1].count = 4
    /\ Workloads[1].count = 3

\* C6: Add New Workload followed by the removal of the last position gives
\* back the list as it was before the add.
C6_AddThenRemoveLast ==
    (/\ HasList
     /\ Len(hist) = 2
     /\ hist[2].op = "add"
     /\ hist[1].op = "remove"
     /\ hist[1].at = Len(hist[1].before))
        => SameList(Workloads, hist[2].before)

C6_Witness ==
    /\ HasList /\ ~rerun_requested
    /\ Len(hist) = 2
    /\ hist[2].op = "add"
    /\ hist[1].op = "remove"
    /\ hist[1].at = Len(hist[1].before)
    /\ Len(hist[2].before) = 1
    /\ hist[2].before[1].name = "ETL"
    /\ Len(Workloads) = 1

ExpectedNewName(n) ==
    CASE n = 0 -> "Workload 1"
      [] n = 1 -> "Workload 2"
      [] n = 2 -> "Workload 3"
      [] n = 3 -> "Workload 4"
      [] OTHER -> "Workload ?"

\* C9: Add New Workload on a list of length n gives a list of length n + 1
\* whose first n workloads are unchanged and whose last one is
\* {'Workload (n+1)', X-Small, 4, 8.0, 5}, also after the re-render.
C9_AddAppendsDefault ==
    (HasList /\ LastOp = "add") =>
        LET old == hist[1].before IN
        /\ Len(Workloads) = Len(old) + 1
        /\ SameList(SubSeq(Workloads, 1, Len(old)), old)
        /\ SameList(<<Workloads[Len(old) + 1]>>,
                    <<[name |-> ExpectedNewName(Len(old)), size |-> "X-Small",
                       count |-> 4, uptime |-> <<8, 1>>, days_per_week |-> 5]>>)

C9_Witness ==
    /\ HasList /\ ~rerun_requested
    /\ LastOp = "add"
    /\ Len(Workloads) = 2
    /\ Workloads[1].name = "Workload 2"
    /\ Workloads[2].name = "Workload 2"

FirstWorkload ==
    [name |-> "Workload 1", size |-> "Medium", count |-> 1,
     uptime |-> <<8, 1>>, days_per_week |-> 5]

\* C7: the first pass of a session creates the list <<'Workload 1', Medium,
\* 1, 8.0, 5>>; when a list exists, initialization does not replace it, adds
\* no workload and changes no field that is present, and initializing twice
\* gives what initializing once gives.
C7_InitIdempotent ==
    /\ [][~HasList => SameList(session_state'.workloads, <<FirstWorkload>>)]_vars
    /\ [](HasList => SameList(Initialize(session_state).workloads, Workloads))
    /\ [](SameList(Initialize(Initialize(session_state)).workloads,
                   Initialize(session_state).workloads))

C7_Witness ==
    /\ HasList /\ ~rerun_requested
    /\ LastOp = "name"
    /\ Len(Workloads) = 2
    /\ Workloads[2].name = "ETL"
    /\ published.shown

ValidSize(w) == \E n \in 1..10 : SIZE_OPTIONS[n] = w.size

\* C8: a pass that meets a workload whose size is not in the rate table ends
\* with an error and publishes no totals, and whatever totals are published
\* come from a pass that ran over the whole list: none after an error, a
\* Remove click or an Add click.
C8_NoPartialTotals ==
    /\ published.shown =>
         /\ HasList /\ ~rerun_requested /\ error_at = 0
         /\ Len(published.rows) = Len(Workloads)
         /\ \A k \in 1..Len(Workloads) : ValidSize(Workloads[k])
    /\ (HasList /\ ~rerun_requested
          /\ \E k \in 1..Len(Workloads) : ~ValidSize(Workloads[k])) =>
         /\ ~published.shown
         /\ error_at \in 1..Len(Workloads)
         /\ ~ValidSize(Workloads[error_at])
         /\ \A j \in 1..(error_at - 1) : ValidSize(Workloads[j])

C8_Witness ==
    /\ HasList /\ ~rerun_requested
    /\ Len(Workloads) = 2
    /\ ValidSize(Workloads[1])
    /\ Workloads[2].size = "UnknownTier"
    /\ LastOp = "count"
    /\ error_at = 2
    /\ ~published.shown

BackfillResult(old, new) ==
    /\ Len(new) = Len(old)
    /\ \A k \in 1..Len(old) :
         /\ DOMAIN new[k] = DOMAIN old[k] \cup {"name", "days_per_week"}
         /\ \A f \in DOMAIN old[k] : new[k][f] = old[k][f]
         /\ "name" \notin DOMAIN old[k] => new[k].name = ExpectedNewName(k - 1)
         /\ "days_per_week" \notin DOMAIN old[k] => new[k].days_per_week = 7

\* C10: when a list exists at the start of a pass, every workload without a
\* name gets 'Workload (p+1)' for its 0-based position p, every workload
\* without days_per_week gets 7, the fields that are present, the length and
\* the order stay, and a second backfill changes nothing.
C10_Backfill ==
    [][(HasList /\ rerun_requested /\ interactions = 0) =>
          /\ BackfillResult(Workloads, session_state'.workloads)
          /\ SameList(Backfill(session_state'.workloads, 1), session_state'.workloads)]_vars

C10_Witness ==
    /\ HasList /\ ~rerun_requested
    /\ interactions = 0
    /\ Len(Workloads) = 2
    /\ Workloads[1].name = "Nightly" /\ Workloads[1].days_per_week = 7
    /\ Workloads[2].name = "Workload 2" /\ Workloads[2].days_per_week = 3

====
